---- MODULE Spec2Model ----
(***************************************************************************)
(* Orbit construction and first-drop classification of the collatz         *)
(* repository: the rule library, the two sequence generators, the          *)
(* classification maps, the orbit simulator generate_orbit_info and the    *)
(* batch driver generate_orbit_info_batch (src/utils/collatz_construction  *)
(* .py), together with the earlier batch driver and simulator that the     *)
(* repository still ships (src/collatz_construction.py).                   *)
(***************************************************************************)
EXTENDS Integers, Sequences, FiniteSets, TLC

(***************************************************************************)
(* Bounds of the model.                                                    *)
(***************************************************************************)
\* largest start value a direct caller of the simulator passes (27 is added)
MaxStart == 10
\* simulator calls a direct caller makes on one set of classification maps
MaxCalls == 3
\* largest total handed to a batch driver
MaxTotal == 8
\* largest max_iterations tried for m3a5 (from 0 on) besides its default
MaxCap == 5
\* longest orbit explored for the probabilistic rule
MaxProbLen == 9
\* largest synthetic magnitude a direct caller puts in lookup
MaxMag == 2
\* The drivers ask the generators for 200 terms (whose values leave the
\* integer range of the checker).  The model keeps the first MaxTerms terms:
\* they cover every first-drop length of the start values below MaxTotal.
MaxTerms == 5
\* A run with only ShortTerms terms reaches, at small scale, the state in
\* which a first-drop length lies beyond the last dropping time generated
\* (in the code: a start value whose stopping time exceeds the 200th one).
ShortTerms == 3
\* The working arrays of get_admissible are sized by limit = 1000, and the
\* pass that outgrows them handles integers of a thousand bits.  The
\* generator process runs the same loop with the arrays sized by a limit
\* from 1 to MaxLimit.
MaxLimit == 6
\* largest term count asked of a generator process
MaxRequest == 5

(***************************************************************************)
(* Python's None for the integer-valued locals (which are >= 1 when set),  *)
(* and for the list-valued first_orbit (which is never empty when set).    *)
(***************************************************************************)
None == -1
NoneList == <<>>

RECURSIVE Pow(_, _)
Pow(base, e) == IF e = 0 THEN 1 ELSE base * Pow(base, e - 1)

(***************************************************************************)
(* Rule library.  An OrbitOptions object is a record of its data fields;   *)
(* its callbacks are the operators below, selected by the rule name.       *)
(***************************************************************************)
create_m3a1_options == [name |-> "m3a1", min_n |-> 1, max_iterations |-> None]
create_m3a3_options == [name |-> "m3a3", min_n |-> 3, max_iterations |-> None]
create_m3a5_options(max_iterations) ==
    [name |-> "m3a5", min_n |-> 5, max_iterations |-> max_iterations]
\* p lies strictly between 0 and 1: both outcomes of r < p can happen
create_probabilistic_options ==
    [name |-> "probabilistic", min_n |-> 1, max_iterations |-> None]
\* the rules of src/collatz_construction.py (no max_iterations attribute)
create_collatz_3x_plus_1_options ==
    [name |-> "3x_plus_1", min_n |-> 1, max_iterations |-> None]
create_collatz_3x_plus_3_options ==
    [name |-> "3x_plus_3", min_n |-> 3, max_iterations |-> None]
create_collatz_probabilistic_options ==
    [name |-> "probabilistic", min_n |-> 1, max_iterations |-> None]

\* default of create_m3a5_options
DefaultMaxIterations == 100

should_halt(opt, v) ==
    CASE opt.name \in {"m3a1", "3x_plus_1"} -> v = 1
      [] opt.name \in {"m3a3", "3x_plus_3"} -> v = 3
      [] opt.name = "m3a5" -> v = 5
      [] opt.name = "probabilistic" -> v <= 3

\* a decrease predicate that overlaps the increase predicate
should_decrease_Mod3(opt, v) == v % 3 = 0

should_decrease(opt, v) == v % 2 = 0
should_increase(opt, v) == v % 2 # 0

decrease(opt, v) == <<v \div 2, "d2">>

\* draw is the outcome of r < p in the probabilistic rule
increase(opt, v, draw) ==
    CASE opt.name \in {"m3a1", "3x_plus_1"} -> <<3 * v + 1, "m3a1">>
      [] opt.name \in {"m3a3", "3x_plus_3"} -> <<3 * v + 3, "m3a3">>
      [] opt.name = "m3a5" -> <<3 * v + 5, "m3a5">>
      [] opt.name = "probabilistic" ->
            IF draw THEN <<3 * v + 1, "m3a1">> ELSE <<3 * v + 3, "m3a3">>

fully_supported_option_names == {"m3a1"}
legacy_fully_supported_option_names == {"3x_plus_1"}

(***************************************************************************)
(* Sequence generators.                                                    *)
(***************************************************************************)
\* size parameter of the working arrays of get_admissible
limit == 1000

\* (k) * math.log(3) < b * math.log(2), i.e. 3^k < 2^b
LogLess(k, b) == Pow(3, k) < Pow(2, b)

\* The working arrays x and y hold limit + 2 entries, all 0 but x[1] = 1.
\* The loop for the value b touches the entries up to b + 1 only, so the
\* model keeps the entries 0..b+1 of x and reads every other entry as 0.
XAt(x, c) == IF c \in DOMAIN x THEN x[c] ELSE 0

\* the two copy loops of one pass, for the value b (after b += 1):
\* y[c] = x[c] + x[c - 1], then x[c] = y[c], for c in 2..b+1
AdmissibleAfterSum(x, b) ==
    [c \in 0..(b + 1) |-> IF c >= 2 THEN XAt(x, c) + XAt(x, c - 1) ELSE XAt(x, c)]

RECURSIVE SumOver(_, _)
SumOver(f, S) ==
    IF S = {} THEN 0
    ELSE LET c == CHOOSE c \in S : TRUE IN f[c] + SumOver(f, S \ {c})

\* the entries the scan of one pass adds to a_n and zeroes
AdmissibleHit(b) == {c \in 1..(b + 1) : LogLess(b + 1 - c, b)}

\* the while loop of get_admissible
RECURSIVE AdmissibleLoop(_, _, _, _)
AdmissibleLoop(x, b, results, n_terms) ==
    IF Len(results) >= n_terms THEN results
    ELSE LET b1 == b + 1
             x1 == AdmissibleAfterSum(x, b1)
             hit == AdmissibleHit(b1)
             a_n == SumOver(x1, hit)
             x2 == [c \in DOMAIN x1 |-> IF c \in hit THEN 0 ELSE x1[c]]
         IN AdmissibleLoop(x2, b1,
                IF a_n # 0 THEN Append(results, a_n) ELSE results, n_terms)

get_admissible(n_terms, opt) ==
    IF opt.name = "m3a1"
    THEN AdmissibleLoop([c \in 0..2 |-> IF c = 1 THEN 1 ELSE 0], 1, <<>>, n_terms)
    ELSE <<>>

\* a logarithm rounded up instead of down
RECURSIVE CeilLog2(_)
CeilLog2(m) == IF m <= 1 THEN 0 ELSE 1 + CeilLog2((m + 1) \div 2)

\* floor(log2(m)) for m >= 1
RECURSIVE FloorLog2(_)
FloorLog2(m) == IF m < 2 THEN 0 ELSE 1 + FloorLog2(m \div 2)

\* a dropping-time formula that gives the same time twice
DroppingTime_Coarse(n) == 1 + 2 * ((n + 1) \div 2)

\* math.floor(1 + n + n * math.log(3) / math.log(2))
DroppingTime(n) == 1 + n + FloorLog2(Pow(3, n))

\* a dropping-time generator that does not test the rule name
get_allowable_dropping_times_AnyRule(n_terms, opt) ==
    [n \in 1..n_terms |-> DroppingTime(n)]

get_allowable_dropping_times(n_terms, opt) ==
    IF opt.name = "m3a1" THEN [n \in 1..n_terms |-> DroppingTime(n)] ELSE <<>>

(***************************************************************************)
(* Classification maps.  lookup_map and wheel_map are keyed by first-drop  *)
(* lengths; index_map is keyed by the strings f'{first_drop}-{mod}', here  *)
(* the pairs <<first_drop, mod>>, and holds the seed key 1, here <<1>>.    *)
(***************************************************************************)
\* an index key that falls on the seed key for first-drop length 1
index_key_Seed(first_drop, stopping_mod) ==
    IF first_drop = 1 THEN <<1>> ELSE <<first_drop, stopping_mod>>

index_key(first_drop, stopping_mod) == <<first_drop, stopping_mod>>

generate_maps ==
    [lookup_map |-> (1 :> 1), wheel_map |-> (1 :> 1), index_map |-> (<<1>> :> 1)]

\* the populating loop of generate_orbit_info_batch, from position i on
RECURSIVE PopulateMaps(_, _, _, _)
PopulateMaps(built, allowable_dropping_times, admissible, i) ==
    IF i > Len(allowable_dropping_times) THEN built
    ELSE LET elem == allowable_dropping_times[i]
             put(f, k, v) == [x \in DOMAIN f \cup {k} |-> IF x = k THEN v ELSE f[x]]
         IN PopulateMaps(
                [lookup_map |-> put(built.lookup_map, elem, admissible[i]),
                 wheel_map |-> put(built.wheel_map, elem, 1),
                 index_map |-> put(built.index_map, index_key(elem, 1), 0)],
                allowable_dropping_times, admissible, i + 1)

\* lines 380-388 of generate_orbit_info_batch, the generators asked for
\* n_terms terms
BatchMaps(n_terms, opt) ==
    PopulateMaps(generate_maps, get_allowable_dropping_times(n_terms, opt),
                 get_admissible(n_terms, opt), 1)

\* BatchMaps for the classic rule at the two term counts of the model,
\* evaluated once
FullMaps == BatchMaps(MaxTerms, create_m3a1_options)
ShortMaps == BatchMaps(ShortTerms, create_m3a1_options)
BuiltMaps(n_terms) == IF n_terms = MaxTerms THEN FullMaps ELSE ShortMaps

\* maps a direct caller of the simulator supplies: built as the driver builds
\* them, every magnitude replaced by mag when mag > 0
SyntheticMaps(n_terms, mag) ==
    LET m == BuiltMaps(n_terms)
    IN [m EXCEPT !.lookup_map =
            [L \in DOMAIN m.lookup_map |-> IF mag > 0 THEN mag ELSE m.lookup_map[L]]]

(***************************************************************************)
(* OrbitInfo.__init__ takes n, first_drop, first_orbit, total_orbit,       *)
(* stop_mod and stop_index.                                                *)
(***************************************************************************)
OrbitInfoParams == 6
\* positional arguments the driver of utils/collatz_construction.py passes
BatchCallArgs == 10
\* positional arguments the driver of collatz_construction.py passes
legacy_BatchCallArgs == 6

OrbitInfo(start, first_drop_, first_orbit_, total_orbit_, stop_mod_, stop_index_) ==
    [n |-> start, first_drop |-> first_drop_, first_orbit |-> first_orbit_,
     total_orbit |-> total_orbit_, stop_mod |-> stop_mod_, stop_index |-> stop_index_]

(***************************************************************************)
(* State.                                                                  *)
(***************************************************************************)
VARIABLES
    caller,         \* who drives: "direct" calls of generate_orbit_info, the
                    \* batch driver "utils" or the earlier driver "legacy"
    n_terms,        \* terms the maps are built from
    classic_maps,   \* BatchMaps(n_terms, create_m3a1_options), evaluated once
    options,        \* the OrbitOptions in use
    maps_supplied,  \* lookup_map, wheel_map and index_map are all not None
    lookup_map, wheel_map, index_map,
    \* locals of generate_orbit_info
    pc,             \* "idle", "running", "halted", "capped", "shortcut", "raised"
    n, orig_n, orbit, first_orbit, first_drop, stopping_mod, stopping_index,
    first_op_list, first_op_map, total_op_list, total_op_map,
    \* the caller
    ncalls,         \* simulator calls made by the direct caller
    results,        \* what the caller has collected
    exc,            \* exception last raised to the caller
    \* locals of generate_orbit_info_batch
    bpc,            \* "none", "loop", "returned", "raised"
    total, bn,
    previous,       \* outcome of the batch call before the present one
    \* a call of get_admissible or get_allowable_dropping_times
    gen             \* its arguments, the locals limit, x, b, results, and
                    \* pc: "idle", "loop", "returned", "raised"

maps == <<lookup_map, wheel_map, index_map>>
locals == <<pc, n, orig_n, orbit, first_orbit, first_drop, stopping_mod,
            stopping_index, first_op_list, first_op_map, total_op_list, total_op_map>>
batch == <<bpc, total, bn, previous>>
config == <<caller, n_terms, classic_maps, options, maps_supplied>>
vars == <<config, maps, locals, ncalls, results, exc, batch, gen>>

Returned == {"halted", "capped", "shortcut"}

(***************************************************************************)
(* The orbit simulator generate_orbit_info.                                *)
(***************************************************************************)
NoLocals ==
    /\ pc' = "idle"
    /\ n' = None /\ orig_n' = None /\ orbit' = <<>>
    /\ first_orbit' = NoneList /\ first_drop' = None
    /\ stopping_mod' = None /\ stopping_index' = None
    /\ first_op_list' = <<>> /\ first_op_map' = <<>>
    /\ total_op_list' = <<>> /\ total_op_map' = <<>>

\* the hard-coded return of rule m3a1 at start 1
ShortcutM3a1 ==
    /\ pc' = "shortcut"
    /\ first_drop' = 1 /\ first_orbit' = <<1, 4, 2>> /\ orbit' = <<1, 4, 2>>
    /\ stopping_mod' = 1 /\ stopping_index' = 1
    /\ first_op_list' = <<"m3a1", "d2", "m3a1">>
    /\ first_op_map' = [m3a1 |-> 2, d2 |-> 1]
    /\ total_op_list' = <<"m3a1", "d2", "m3a1">>
    /\ total_op_map' = [m3a1 |-> 2, d2 |-> 1]

\* the hard-coded return of rule m3a3 at start 3
ShortcutM3a3 ==
    /\ pc' = "shortcut"
    /\ first_drop' = 3 /\ first_orbit' = <<3, 12, 6>> /\ orbit' = <<3, 12, 6>>
    /\ stopping_mod' = 1 /\ stopping_index' = 1
    /\ first_op_list' = <<"m3a3", "d2", "m3a3">>
    /\ first_op_map' = [m3a3 |-> 2, d2 |-> 1]
    /\ total_op_list' = <<"m3a1", "d2", "m3a1">>
    /\ total_op_map' = [m3a1 |-> 2, d2 |-> 1]

\* a simulator that forgets to put the start value into the orbit
StartLoop_EmptyOrbit(start) ==
    /\ pc' = "running"
    /\ orbit' = <<>>
    /\ first_orbit' = NoneList /\ first_drop' = None
    /\ stopping_mod' = None /\ stopping_index' = None
    /\ first_op_list' = <<>> /\ first_op_map' = <<>>
    /\ total_op_list' = <<>> /\ total_op_map' = <<>>

\* the locals before the while loop
StartLoop(start) ==
    /\ pc' = "running"
    /\ orbit' = <<start>>
    /\ first_orbit' = NoneList /\ first_drop' = None
    /\ stopping_mod' = None /\ stopping_index' = None
    /\ first_op_list' = <<>> /\ first_op_map' = <<>>
    /\ total_op_list' = <<>> /\ total_op_map' = <<>>

\* generate_orbit_info up to its while loop
generate_orbit_info(start) ==
    /\ n' = start /\ orig_n' = start
    /\ IF options.name = "m3a1" /\ start = 1 THEN ShortcutM3a1
       ELSE IF options.name = "m3a3" /\ start = 3 THEN ShortcutM3a3
       ELSE StartLoop(start)
    /\ UNCHANGED maps

\* the earlier generate_orbit_info up to its while loop; it returns no
\* operation logs
legacy_generate_orbit_info(start) ==
    /\ n' = start /\ orig_n' = start
    /\ IF options.name = "3x_plus_1" /\ start = 1
       THEN /\ pc' = "shortcut"
            /\ first_drop' = 1 /\ first_orbit' = <<1, 4, 2>> /\ orbit' = <<1, 4, 2>>
            /\ stopping_mod' = 1 /\ stopping_index' = 1
            /\ first_op_list' = <<>> /\ first_op_map' = <<>>
            /\ total_op_list' = <<>> /\ total_op_map' = <<>>
       ELSE IF options.name = "3x_plus_3" /\ start = 3
       THEN /\ pc' = "shortcut"
            /\ first_drop' = 3 /\ first_orbit' = <<3, 12, 6>> /\ orbit' = <<3, 12, 6>>
            /\ stopping_mod' = 1 /\ stopping_index' = 1
            /\ first_op_list' = <<>> /\ first_op_map' = <<>>
            /\ total_op_list' = <<>> /\ total_op_map' = <<>>
       ELSE StartLoop(start)
    /\ UNCHANGED maps

\* a test of the supplied maps that always succeeds
building_frome_scratch_Always == TRUE

building_frome_scratch == maps_supplied

\* a cap test that lets the orbit grow one element too long
CapReached_Late ==
    options.max_iterations # None /\ Len(orbit) > options.max_iterations

\* the cap test at the head of the loop body
CapReached ==
    options.max_iterations # None /\ Len(orbit) >= options.max_iterations

\* tally of an operation id in an operation map
CountOp(op_map, op_id) ==
    IF op_id \in DOMAIN op_map
    THEN [op_map EXCEPT ![op_id] = @ + 1]
    ELSE [x \in DOMAIN op_map \cup {op_id} |-> IF x = op_id THEN 1 ELSE op_map[x]]

\* a wrap test that wraps one slot late
WheelWraps_Late(first_drop_) == wheel_map[first_drop_] > lookup_map[first_drop_] + 1

\* the wrap test of the classification update
WheelWraps(first_drop_) == wheel_map[first_drop_] > lookup_map[first_drop_]

\* the classification update for first-drop length first_drop_
ClassificationUpdate(first_drop_) ==
    LET mod_magnitude == lookup_map[first_drop_]
        mod == IF WheelWraps(first_drop_) THEN 1 ELSE wheel_map[first_drop_]
        index_key_ == index_key(first_drop_, mod)
        count == IF index_key_ \in DOMAIN index_map THEN index_map[index_key_] + 1 ELSE 1
    IN /\ stopping_mod' = mod
       /\ wheel_map' = [wheel_map EXCEPT ![first_drop_] = mod + 1]
       /\ index_map' = [k \in DOMAIN index_map \cup {index_key_} |->
                            IF k = index_key_ THEN count ELSE index_map[k]]
       /\ stopping_index' = count
       /\ UNCHANGED lookup_map

\* the first-drop test of the loop body, on the value new_n just computed
IsFirstDrop(new_n) == new_n <= orig_n /\ first_orbit = NoneList

\* one pass of the loop body after the cap test: the transform, the operation
\* logs when record_ops, the first-drop detection with the classification
\* update when eligible, and the append
LoopBodyStep(draw, record_ops, eligible) ==
    LET step == IF should_decrease(options, n) THEN decrease(options, n)
                ELSE increase(options, n, draw)
        new_n == step[1]
        inc_op_id == step[2]
        drop == IsFirstDrop(new_n)
        new_first_drop == Len(orbit)
    IN /\ n' = new_n
       /\ UNCHANGED orig_n
       /\ IF record_ops
          THEN /\ total_op_list' = Append(total_op_list, inc_op_id)
               /\ total_op_map' = CountOp(total_op_map, inc_op_id)
               /\ IF first_drop = None
                  THEN /\ first_op_list' = Append(first_op_list, inc_op_id)
                       /\ first_op_map' = CountOp(first_op_map, inc_op_id)
                  ELSE UNCHANGED <<first_op_list, first_op_map>>
          ELSE UNCHANGED <<total_op_list, total_op_map, first_op_list, first_op_map>>
       /\ IF drop
          THEN /\ first_orbit' = orbit
               /\ first_drop' = new_first_drop
          ELSE UNCHANGED <<first_orbit, first_drop>>
       /\ IF drop /\ eligible
          THEN IF new_first_drop \notin DOMAIN lookup_map
               THEN \* raise Exception('First drop ... not in lookup_map')
                    /\ pc' = "raised"
                    /\ UNCHANGED <<orbit, stopping_mod, stopping_index, maps>>
               ELSE /\ ClassificationUpdate(new_first_drop)
                    /\ orbit' = Append(orbit, new_n)
                    /\ UNCHANGED pc
          ELSE /\ orbit' = Append(orbit, new_n)
               /\ UNCHANGED <<pc, stopping_mod, stopping_index, maps>>

rest == <<config, ncalls, results, exc, batch, gen>>

\* a loop exit that does not wait for the halting value
LoopExit_Early ==
    /\ pc = "running" /\ caller # "legacy"
    /\ pc' = "halted"
    /\ UNCHANGED <<n, orig_n, orbit, first_orbit, first_drop, stopping_mod,
                   stopping_index, first_op_list, first_op_map, total_op_list,
                   total_op_map, maps, rest>>

\* the while condition fails: should_halt(n) holds and the tuple is returned
LoopExit ==
    /\ pc = "running" /\ caller # "legacy"
    /\ should_halt(options, n)
    /\ pc' = "halted"
    /\ UNCHANGED <<n, orig_n, orbit, first_orbit, first_drop, stopping_mod,
                   stopping_index, first_op_list, first_op_map, total_op_list,
                   total_op_map, maps, rest>>

\* the break on max_iterations
LoopBreak ==
    /\ pc = "running" /\ caller # "legacy"
    /\ ~should_halt(options, n)
    /\ CapReached
    /\ pc' = "capped"
    /\ UNCHANGED <<n, orig_n, orbit, first_orbit, first_drop, stopping_mod,
                   stopping_index, first_op_list, first_op_map, total_op_list,
                   total_op_map, maps, rest>>

\* one pass of the loop body
LoopBody ==
    /\ pc = "running" /\ caller # "legacy"
    /\ ~should_halt(options, n)
    /\ ~CapReached
    /\ options.name = "probabilistic" => Len(orbit) < MaxProbLen
    /\ \E draw \in BOOLEAN :
          LoopBodyStep(draw, TRUE,
              building_frome_scratch /\ options.name \in fully_supported_option_names)
    /\ UNCHANGED rest

\* the earlier simulator: no cap, no operation logs
legacy_LoopExit ==
    /\ pc = "running" /\ caller = "legacy"
    /\ should_halt(options, n)
    /\ pc' = "halted"
    /\ UNCHANGED <<n, orig_n, orbit, first_orbit, first_drop, stopping_mod,
                   stopping_index, first_op_list, first_op_map, total_op_list,
                   total_op_map, maps, rest>>

legacy_LoopBody ==
    /\ pc = "running" /\ caller = "legacy"
    /\ ~should_halt(options, n)
    /\ options.name = "probabilistic" => Len(orbit) < MaxProbLen
    /\ \E draw \in BOOLEAN :
          LoopBodyStep(draw, FALSE,
              options.name \in legacy_fully_supported_option_names)
    /\ UNCHANGED rest

(***************************************************************************)
(* A direct caller of generate_orbit_info: it calls the simulator on its   *)
(* own options and maps, with nondecreasing start values, and collects the *)
(* tuples returned.  Calls that share no classification state are          *)
(* independent of each other, so the caller makes more than one call only  *)
(* when the maps are supplied to a classification-eligible rule.           *)
(***************************************************************************)
DirectOptions ==
    {create_m3a1_options, create_m3a3_options, create_probabilistic_options}
        \cup {create_m3a5_options(c) : c \in (0..MaxCap) \cup {DefaultMaxIterations}}

StartValues(opt) ==
    (opt.min_n..MaxStart) \cup (IF opt.name = "m3a1" THEN {27} ELSE {})

ReturnTuple ==
    [n |-> orig_n, first_drop |-> first_drop, first_orbit |-> first_orbit,
     total_orbit |-> orbit, stop_mod |-> stopping_mod, stop_index |-> stopping_index,
     first_op_list |-> first_op_list, first_op_map |-> first_op_map,
     total_op_list |-> total_op_list, total_op_map |-> total_op_map]

LastStart == IF results = <<>> THEN 0 ELSE results[Len(results)].n

DirectCall ==
    /\ caller = "direct" /\ pc = "idle"
    /\ ncalls < MaxCalls
    /\ ncalls = 0 \/ (maps_supplied /\ options.name \in fully_supported_option_names)
    /\ \E start \in StartValues(options) :
          /\ start >= LastStart
          /\ generate_orbit_info(start)
    /\ ncalls' = ncalls + 1
    /\ UNCHANGED <<gen, config, results, exc, batch>>

DirectCollect ==
    /\ caller = "direct" /\ pc \in Returned
    /\ results' = Append(results, ReturnTuple)
    /\ NoLocals
    /\ UNCHANGED <<gen, config, maps, ncalls, exc, batch>>

\* the exception of the simulator reaches the direct caller
DirectCatch ==
    /\ caller = "direct" /\ pc = "raised"
    /\ exc' = "lookup"
    /\ NoLocals
    /\ UNCHANGED <<gen, config, maps, ncalls, results, batch>>

(***************************************************************************)
(* The batch drivers generate_orbit_info_batch.                            *)
(***************************************************************************)
BatchOptions ==
    IF caller = "utils"
    THEN {create_m3a1_options, create_m3a3_options,
          create_m3a5_options(DefaultMaxIterations), create_probabilistic_options}
    ELSE {create_collatz_3x_plus_1_options, create_collatz_3x_plus_3_options,
          create_collatz_probabilistic_options}

\* the maps the driver holds when its for loop starts (lines 380-388)
batch_maps(opt) ==
    IF opt.name = "m3a1" THEN classic_maps ELSE BatchMaps(n_terms, opt)

\* the same for the earlier driver, whose generators test the rule name
\* '3x_plus_1'
legacy_batch_maps(opt) ==
    IF opt.name = "3x_plus_1" THEN classic_maps ELSE generate_maps

\* what the call that has just ended gave its caller
Outcome ==
    [name |-> options.name, total |-> total, status |-> bpc, results |-> results]
NoOutcome == [name |-> "", total |-> 0, status |-> "none", results |-> <<>>]

\* the except clause of the driver of utils/collatz_construction.py:
\* print(e), raise e
batch_except(e) ==
    /\ exc' = e
    /\ bpc' = "raised"
    /\ UNCHANGED <<results, total, bn, previous>>

\* the except clause of the driver of collatz_construction.py: print(e),
\* then return results
legacy_batch_except(e) ==
    /\ exc' = e
    /\ bpc' = "returned"
    /\ UNCHANGED <<results, total, bn, previous>>

\* the call, up to the for loop: the maps are built, results is empty
generate_orbit_info_batch ==
    /\ caller \in {"utils", "legacy"}
    /\ bpc # "loop"
    /\ \E opt \in BatchOptions :
          LET built == IF caller = "utils" THEN batch_maps(opt)
                       ELSE legacy_batch_maps(opt)
          IN /\ options' = opt
             /\ total' \in opt.min_n..MaxTotal
             /\ bn' = opt.min_n
             /\ lookup_map' = built.lookup_map
             /\ wheel_map' = built.wheel_map
             /\ index_map' = built.index_map
    /\ results' = <<>>
    /\ exc' = "none"
    /\ bpc' = "loop"
    /\ NoLocals
    /\ previous' = (IF bpc = "none" THEN NoOutcome ELSE Outcome)
    /\ UNCHANGED <<caller, n_terms, classic_maps, maps_supplied, ncalls, gen>>

\* the for loop calls the simulator for the next start value
BatchCallSimulator ==
    /\ bpc = "loop" /\ pc = "idle"
    /\ bn < total
    /\ IF caller = "utils" THEN generate_orbit_info(bn)
       ELSE legacy_generate_orbit_info(bn)
    /\ UNCHANGED <<gen, config, ncalls, results, exc, batch>>

\* results.append(OrbitInfo(...)) in the driver of utils/collatz_construction.py:
\* the constructor is called with BatchCallArgs positional arguments
BatchAppend ==
    /\ caller = "utils" /\ bpc = "loop" /\ pc \in Returned
    /\ IF BatchCallArgs # OrbitInfoParams
       THEN \* TypeError, raised inside the try block
            batch_except("TypeError")
       ELSE /\ results' = Append(results,
                   OrbitInfo(bn, first_drop, first_orbit, orbit, stopping_mod,
                             stopping_index))
            /\ bn' = bn + 1
            /\ UNCHANGED <<exc, bpc, total, previous>>
    /\ NoLocals
    /\ UNCHANGED <<gen, config, maps, ncalls>>

\* results.append(OrbitInfo(...)) in the driver of collatz_construction.py
legacy_BatchAppend ==
    /\ caller = "legacy" /\ bpc = "loop" /\ pc \in Returned
    /\ IF legacy_BatchCallArgs # OrbitInfoParams
       THEN legacy_batch_except("TypeError")
       ELSE /\ results' = Append(results,
                   OrbitInfo(bn, first_drop, first_orbit, orbit, stopping_mod,
                             stopping_index))
            /\ bn' = bn + 1
            /\ UNCHANGED <<exc, bpc, total, previous>>
    /\ NoLocals
    /\ UNCHANGED <<gen, config, maps, ncalls>>

\* the simulator raised inside the try block
BatchExcept ==
    /\ bpc = "loop" /\ pc = "raised"
    /\ IF caller = "utils" THEN batch_except("lookup")
       ELSE legacy_batch_except("lookup")
    /\ NoLocals
    /\ UNCHANGED <<gen, config, maps, ncalls>>

\* the for loop is exhausted: return results
BatchReturn ==
    /\ bpc = "loop" /\ pc = "idle"
    /\ bn >= total
    /\ bpc' = "returned"
    /\ UNCHANGED <<gen, config, maps, locals, ncalls, results, exc, total, bn, previous>>

(***************************************************************************)
(* The sequence generators as a process: a call, then for get_admissible   *)
(* one step per pass of its while loop.                                    *)
(***************************************************************************)
GeneratorOptions ==
    {create_m3a1_options, create_m3a3_options,
     create_m3a5_options(DefaultMaxIterations), create_probabilistic_options}

\* no generator call is under way; lim sizes the working arrays
NoGenerator(lim) ==
    [pc |-> "idle", fn |-> "", name |-> "", n_terms |-> 0, limit |-> lim,
     x |-> <<>>, b |-> 0, results |-> <<>>]

\* x = [0] * (limit + 2): the list has the indices 0..limit+1
ArrayLen(lim) == lim + 2

\* an index test that never fails
IndexError_Never(c, lim) == FALSE

\* list index out of range
IndexError(c, lim) == c >= ArrayLen(lim)

\* get_admissible up to its while loop
CallAdmissible ==
    /\ gen.pc # "loop"
    /\ \E opt \in GeneratorOptions, k \in 0..MaxRequest :
          gen' = IF opt.name = "m3a1"
                 THEN [gen EXCEPT !.pc = "loop", !.fn = "get_admissible",
                                  !.name = opt.name, !.n_terms = k,
                                  !.x = [c \in 0..2 |-> IF c = 1 THEN 1 ELSE 0],
                                  !.b = 1, !.results = <<>>]
                 ELSE [gen EXCEPT !.pc = "returned", !.fn = "get_admissible",
                                  !.name = opt.name, !.n_terms = k,
                                  !.x = <<>>, !.b = 0, !.results = <<>>]

\* one pass of the while loop of get_admissible; the first for loop runs c
\* up to b + 1 and raises IndexError when that index is beyond the arrays
AdmissiblePass ==
    /\ gen.pc = "loop"
    /\ Len(gen.results) < gen.n_terms
    /\ LET b1 == gen.b + 1
           x1 == AdmissibleAfterSum(gen.x, b1)
           hit == AdmissibleHit(b1)
           a_n == SumOver(x1, hit)
           x2 == [c \in DOMAIN x1 |-> IF c \in hit THEN 0 ELSE x1[c]]
       IN gen' = IF IndexError(b1 + 1, gen.limit)
                 THEN [gen EXCEPT !.pc = "raised", !.b = b1]
                 ELSE [gen EXCEPT !.b = b1, !.x = x2,
                          !.results = IF a_n # 0 THEN Append(@, a_n) ELSE @]

\* the while condition fails: return results
AdmissibleReturn ==
    /\ gen.pc = "loop"
    /\ Len(gen.results) >= gen.n_terms
    /\ gen' = [gen EXCEPT !.pc = "returned"]

\* get_allowable_dropping_times
CallDroppingTimes ==
    /\ gen.pc # "loop"
    /\ \E opt \in GeneratorOptions, k \in 0..MaxRequest :
          gen' = [gen EXCEPT !.pc = "returned",
                             !.fn = "get_allowable_dropping_times",
                             !.name = opt.name, !.n_terms = k,
                             !.x = <<>>, !.b = 0,
                             !.results = get_allowable_dropping_times(k, opt)]

(***************************************************************************)
(* Specification.                                                          *)
(***************************************************************************)
NoMaps == lookup_map = <<>> /\ wheel_map = <<>> /\ index_map = <<>>

Init ==
    /\ caller \in {"direct", "utils", "legacy"}
    /\ n_terms \in {ShortTerms, MaxTerms}
    /\ classic_maps = BuiltMaps(n_terms)
    /\ IF caller = "direct"
       THEN /\ options \in DirectOptions
            /\ maps_supplied \in BOOLEAN
            /\ IF maps_supplied
               THEN \E mag \in 0..MaxMag :
                      /\ options.name \notin fully_supported_option_names
                            => (mag = 0 /\ n_terms = MaxTerms)
                      /\ lookup_map = SyntheticMaps(n_terms, mag).lookup_map
                      /\ wheel_map = SyntheticMaps(n_terms, mag).wheel_map
                      /\ index_map = SyntheticMaps(n_terms, mag).index_map
               ELSE n_terms = MaxTerms /\ NoMaps
       ELSE /\ options = (IF caller = "utils" THEN create_m3a1_options
                          ELSE create_collatz_3x_plus_1_options)
            /\ maps_supplied = TRUE
            /\ NoMaps
    /\ pc = "idle"
    /\ n = None /\ orig_n = None /\ orbit = <<>>
    /\ first_orbit = NoneList /\ first_drop = None
    /\ stopping_mod = None /\ stopping_index = None
    /\ first_op_list = <<>> /\ first_op_map = <<>>
    /\ total_op_list = <<>> /\ total_op_map = <<>>
    /\ ncalls = 0 /\ results = <<>> /\ exc = "none"
    /\ bpc = "none" /\ total = 0 /\ bn = 0 /\ previous = NoOutcome
    /\ gen = NoGenerator(limit)

Next ==
    \/ DirectCall \/ DirectCollect \/ DirectCatch
    \/ LoopExit \/ LoopBreak \/ LoopBody
    \/ legacy_LoopExit \/ legacy_LoopBody
    \/ generate_orbit_info_batch \/ BatchCallSimulator
    \/ BatchAppend \/ legacy_BatchAppend \/ BatchExcept \/ BatchReturn

Spec == Init /\ [][Next]_vars

\* the generators called on their own, no simulation under way
simulation == <<config, maps, locals, ncalls, results, exc, batch>>

GenInit ==
    /\ caller = "generator"
    /\ n_terms = MaxTerms
    /\ classic_maps = BuiltMaps(n_terms)
    /\ options = create_m3a1_options
    /\ maps_supplied = FALSE
    /\ NoMaps
    /\ pc = "idle"
    /\ n = None /\ orig_n = None /\ orbit = <<>>
    /\ first_orbit = NoneList /\ first_drop = None
    /\ stopping_mod = None /\ stopping_index = None
    /\ first_op_list = <<>> /\ first_op_map = <<>>
    /\ total_op_list = <<>> /\ total_op_map = <<>>
    /\ ncalls = 0 /\ results = <<>> /\ exc = "none"
    /\ bpc = "none" /\ total = 0 /\ bn = 0 /\ previous = NoOutcome
    /\ \E lim \in 1..MaxLimit : gen = NoGenerator(lim)

GenNext ==
    \/ CallAdmissible /\ UNCHANGED simulation
    \/ AdmissiblePass /\ UNCHANGED simulation
    \/ AdmissibleReturn /\ UNCHANGED simulation
    \/ CallDroppingTimes /\ UNCHANGED simulation

GenSpec == GenInit /\ [][GenNext]_vars

(***************************************************************************)
(* Properties.                                                             *)
(***************************************************************************)
Finished == bpc \in {"returned", "raised"}

\* the start fields of the records are min_n, min_n + 1, ... in this order
AscendingFromMin(records) ==
    \A i \in 1..Len(records) : records[i].n = options.min_n + i - 1

\* the rule is classification-eligible and classification state is supplied
Eligible ==
    IF caller = "legacy" THEN options.name \in legacy_fully_supported_option_names
    ELSE maps_supplied /\ options.name \in fully_supported_option_names

\* C1: a batch call with total N >= min_n returns exactly N - min_n records
\* whose start fields are min_n, ..., N - 1 in ascending order.  (Stated for
\* the maps built from all the terms, where no lookup failure cuts it short.)
C1_BatchReturnsRange ==
    (Finished /\ n_terms = MaxTerms) =>
        /\ bpc = "returned"
        /\ Len(results) = total - options.min_n
        /\ AscendingFromMin(results)

\* C2: an exception raised inside the try block of the batch driver, the
\* simulator's lookup failure for a start value s among them, does not leave
\* the batch call: the call returns, and after a lookup failure it returns
\* exactly the records of the start values before s.
C2_FailureContained ==
    /\ bpc # "raised"
    /\ (bpc = "returned" /\ exc = "lookup") =>
            /\ Len(results) = bn - options.min_n
            /\ AscendingFromMin(results)

\* what holds of the earlier driver, which passes the constructor its six
\* arguments and whose except clause returns: the range of C1, and the
\* containment of C2 with the records before the failing start value
legacy_BatchReturnsRange ==
    (caller = "legacy" /\ Finished) =>
        /\ bpc = "returned"
        /\ AscendingFromMin(results)
        /\ IF exc = "lookup" THEN Len(results) = bn - options.min_n /\ bn < total
           ELSE Len(results) = total - options.min_n
        /\ (n_terms = MaxTerms) => exc = "none"

\* a record that went through the classification update of the loop
ClassifiedByUpdate(r) ==
    r.stop_mod # None /\ ~(options.name \in {"m3a1", "3x_plus_1"} /\ r.n = 1)

\* the rank k of record i among the records returned classified with its
\* first-drop length
Rank(i) ==
    Cardinality({j \in 1..i : /\ results[j].stop_mod # None
                             /\ results[j].first_drop = results[i].first_drop})

\* C3: slots are assigned round-robin: from wheel[L] = 1 and index entries
\* of L at 0 or absent, the k-th orbit classified with first-drop length L
\* gets stop_mod = ((k-1) mod lookup[L]) + 1 and
\* stop_index = ((k-1) div lookup[L]) + 1.
C3_RoundRobin ==
    Eligible =>
        \A i \in 1..Len(results) :
            results[i].stop_mod # None =>
                LET r == results[i]
                    k == Rank(i)
                    m == lookup_map[r.first_drop]
                IN /\ r.stop_mod = ((k - 1) % m) + 1
                   /\ r.stop_index = ((k - 1) \div m) + 1

\* the rank of record i among the records classified by the update with its
\* first-drop length
UpdateRank(i) ==
    Cardinality({j \in 1..i : /\ ClassifiedByUpdate(results[j])
                             /\ results[j].first_drop = results[i].first_drop})

\* the same of the records classified by the update of the while loop, the
\* record of the hard-coded return at start 1 neither counted nor judged:
\* this holds
UpdatedRoundRobin ==
    Eligible =>
        \A i \in 1..Len(results) :
            ClassifiedByUpdate(results[i]) =>
                LET r == results[i]
                    k == UpdateRank(i)
                    m == lookup_map[r.first_drop]
                IN /\ r.stop_mod = ((k - 1) % m) + 1
                   /\ r.stop_index = ((k - 1) \div m) + 1

\* the step bumps wheel[L] to slot + 1 and adds 1 to exactly one index entry,
\* the one of (L, slot)
OneUpdate(L, slot) ==
    /\ L \in DOMAIN wheel_map
    /\ wheel_map' = [wheel_map EXCEPT ![L] = slot + 1]
    /\ DOMAIN index_map' = DOMAIN index_map \cup {index_key(L, slot)}
    /\ \A key \in DOMAIN index_map' :
          index_map'[key] =
              (IF key \in DOMAIN index_map THEN index_map[key] ELSE 0)
                  + (IF key = index_key(L, slot) THEN 1 ELSE 0)

\* C4: for an eligible rule with classification state supplied, an orbit gets
\* its classification only by performing the classification update, at the
\* first step whose result is <= start, and once it has its classification
\* no later step of its simulation touches wheel or index.
C4_UpdateExactlyOnce ==
    [][Eligible =>
          /\ (stopping_mod = None /\ stopping_mod' # None) =>
                /\ pc = "running"
                /\ n' <= orig_n
                /\ \A i \in 2..Len(orbit) : orbit[i] > orig_n
                /\ first_drop' = Len(orbit)
                /\ OneUpdate(first_drop', stopping_mod')
          /\ (pc = "running" /\ stopping_mod # None) =>
                UNCHANGED <<wheel_map, index_map>>]_vars

\* the same of the steps of the while loop, the two hard-coded returns left
\* aside: this holds
LoopUpdateExactlyOnce ==
    [][(Eligible /\ pc' # "shortcut") =>
          /\ (stopping_mod = None /\ stopping_mod' # None) =>
                /\ pc = "running"
                /\ n' <= orig_n
                /\ \A i \in 2..Len(orbit) : orbit[i] > orig_n
                /\ first_drop' = Len(orbit)
                /\ OneUpdate(first_drop', stopping_mod')
          /\ (pc = "running" /\ stopping_mod # None) =>
                UNCHANGED <<wheel_map, index_map>>]_vars

\* C5 as claimed: with max_iterations = M set, a simulation that has not
\* halted within M elements stops without an error with exactly M elements
\* in total_orbit, and first_drop is set exactly when some step performed
\* gave a value <= start.
C5_CapStopsAtM ==
    (options.max_iterations # None /\ pc = "capped") =>
        /\ Len(orbit) = options.max_iterations
        /\ \A i \in 1..Len(orbit) : ~should_halt(options, orbit[i])
        /\ (first_drop # None) <=> (\E i \in 2..Len(orbit) : orbit[i] <= orig_n)

Max(a, b) == IF a >= b THEN a ELSE b

\* C5 as amended: the start value is in total_orbit before the cap is first
\* tested, so the simulation stops with exactly max(M, 1) elements (a cap of
\* 0 acts as a cap of 1); no simulation raises or ever holds more elements
\* than that, and first_drop is set exactly when some step performed gave a
\* value <= start.
C5_CapStopsAtMaxM1 ==
    options.max_iterations # None =>
        /\ pc # "raised"
        /\ Len(orbit) <= Max(options.max_iterations, 1)
        /\ pc = "halted" => should_halt(options, orbit[Len(orbit)])
        /\ pc = "capped" =>
              /\ Len(orbit) = Max(options.max_iterations, 1)
              /\ \A i \in 1..Len(orbit) : ~should_halt(options, orbit[i])
              /\ (first_drop # None) <=> (\E i \in 2..Len(orbit) : orbit[i] <= orig_n)

\* the cap of 5 fired on an orbit of m3a5 whose first drop came before it
C5_Witness ==
    /\ options.name = "m3a5" /\ options.max_iterations = 5
    /\ pc = "capped" /\ Len(orbit) = 5
    /\ first_drop # None /\ first_drop < 5

\* C6: every simulation of a built-in rule leaves RUNNING under every
\* resolution of the random draws.  For a rule without max_iterations a
\* finite run shows the contrary when the running simulation comes back to a
\* value it has visited: the draws that led from that value to itself can
\* repeat for ever.  So: a running simulation without cap never revisits.
C6_EveryResolutionLeavesRunning ==
    (pc = "running" /\ options.max_iterations = None) =>
        \A i \in 1..(Len(orbit) - 1) : orbit[i] # n

\* C7: rule m3a1 at start 1 returns first_drop 1, first_orbit [1],
\* total_orbit [1, 4, 2], stop_mod 1 and stop_index 1.
C7_ClassicStartOne ==
    (options.name \in {"m3a1", "3x_plus_1"} /\ orig_n = 1 /\ pc \in Returned) =>
        /\ first_drop = 1
        /\ first_orbit = <<1>>
        /\ orbit = <<1, 4, 2>>
        /\ stopping_mod = 1
        /\ stopping_index = 1

LastFour(seq) == SubSeq(seq, Len(seq) - 3, Len(seq))

\* C8 as claimed: rule m3a1 at start 27 halts with a total_orbit of 111
\* elements ending in 8, 4, 2, 1.
C8_Orbit27Has111 ==
    (options.name = "m3a1" /\ orig_n = 27 /\ pc \in Returned) =>
        /\ pc = "halted"
        /\ Len(orbit) = 111
        /\ LastFour(orbit) = <<8, 4, 2, 1>>

\* C8 as amended: rule m3a1 at start 27 halts with a total_orbit of 112
\* elements (111 steps), ending in 8, 4, 2, 1.
C8_Orbit27Has112 ==
    (options.name = "m3a1" /\ orig_n = 27 /\ pc \in Returned) =>
        /\ pc = "halted"
        /\ Len(orbit) = 112
        /\ orbit[1] = 27
        /\ LastFour(orbit) = <<8, 4, 2, 1>>

C8_Witness ==
    options.name = "m3a1" /\ orig_n = 27 /\ pc = "halted" /\ n = 1

\* C9: two successive batch calls with the same total and the same
\* non-probabilistic rule both return, and return the same records.
C9_SameCallSameRecords ==
    (/\ Finished /\ previous.status # "none"
     /\ previous.name = options.name /\ previous.total = total
     /\ options.name # "probabilistic") =>
        /\ bpc = "returned" /\ previous.status = "returned"
        /\ previous.results = results

\* what holds of both drivers: nothing of one batch call reaches the next,
\* the two calls end the same way with the same records collected
SameCallSameOutcome ==
    (/\ Finished /\ previous.status # "none"
     /\ previous.name = options.name /\ previous.total = total
     /\ options.name # "probabilistic") =>
        /\ previous.status = bpc
        /\ previous.results = results

\* C10: in a returned tuple with first_drop set, first_drop is the length of
\* first_orbit, first_orbit is that prefix of total_orbit, its elements after
\* the start are > start, and the next element of total_orbit is <= start.
C10_FirstDropShape ==
    (pc \in Returned /\ first_drop # None) =>
        /\ first_drop = Len(first_orbit)
        /\ Len(orbit) > first_drop
        /\ first_orbit = SubSeq(orbit, 1, first_drop)
        /\ \A i \in 2..Len(first_orbit) : first_orbit[i] > orig_n
        /\ orbit[first_drop + 1] <= orig_n

\* the same of the tuples the while loop produces
LoopFirstDropShape ==
    (pc \in {"halted", "capped"} /\ first_drop # None) =>
        /\ first_drop = Len(first_orbit)
        /\ Len(orbit) > first_drop
        /\ first_orbit = SubSeq(orbit, 1, first_drop)
        /\ \A i \in 2..Len(first_orbit) : first_orbit[i] > orig_n
        /\ orbit[first_drop + 1] <= orig_n

\* C11 as claimed: a simulation that ends without the cap firing has a
\* total_orbit whose last element satisfies should_halt and whose earlier
\* elements do not.
C11_EndsAtFirstHalt ==
    pc \in {"halted", "shortcut"} =>
        /\ orbit[1] = orig_n
        /\ should_halt(options, orbit[Len(orbit)])
        /\ \A i \in 1..(Len(orbit) - 1) : ~should_halt(options, orbit[i])

\* the two start values with a hard-coded return
HardCoded(name, start) ==
    \/ name \in {"m3a1", "3x_plus_1"} /\ start = 1
    \/ name \in {"m3a3", "3x_plus_3"} /\ start = 3

\* C11 as amended: a simulation that ends through the while loop without the
\* cap firing has a total_orbit from start through the first value that
\* satisfies should_halt; the hard-coded returns, of m3a1 at 1 and m3a3 at 3,
\* and these only, give the fixed orbit [n, 4n, 2n], which starts at the
\* halting value and does not end at it.
C11_LoopEndsAtFirstHalt ==
    /\ pc = "halted" =>
        /\ ~HardCoded(options.name, orig_n)
        /\ orbit[1] = orig_n /\ orbit[Len(orbit)] = n
        /\ should_halt(options, orbit[Len(orbit)])
        /\ \A i \in 1..(Len(orbit) - 1) : ~should_halt(options, orbit[i])
    /\ pc = "shortcut" =>
        /\ HardCoded(options.name, orig_n)
        /\ orbit = <<orig_n, 4 * orig_n, 2 * orig_n>>
        /\ should_halt(options, orbit[1]) /\ ~should_halt(options, orbit[3])

\* a loop of several steps has ended at the halting value of m3a3
C11_Witness ==
    /\ options.name = "m3a3" /\ pc = "halted" /\ orig_n = 5
    /\ Len(orbit) > 3 /\ orbit[Len(orbit)] = 3

\* the values the increase transform of the rule in use can give at v
IncreaseValues(v) == {increase(options, v, draw)[1] : draw \in BOOLEAN}

\* C12: at every value v a running simulation visits with should_halt(v)
\* false, exactly one of should_decrease(v) and should_increase(v) holds, and
\* the step the simulator takes from v halves v when should_decrease(v) holds
\* and applies the rule's increase otherwise.
C12_OneTransformApplies ==
    [][(pc = "running" /\ n' # n) =>
          /\ ~should_halt(options, n)
          /\ should_decrease(options, n) # should_increase(options, n)
          /\ IF should_decrease(options, n)
             THEN n' = n \div 2 /\ 2 * n' = n
             ELSE should_increase(options, n) /\ n' \in IncreaseValues(n)]_vars

\* the elements of a sequence
Range(seq) == {seq[i] : i \in 1..Len(seq)}

\* a simulation of m3a5 has applied its increase and its decrease
C12_Witness ==
    /\ options.name = "m3a5" /\ pc = "running" /\ orig_n = 7
    /\ orbit = <<7, 26, 13>>
    /\ total_op_list = <<"m3a5", "d2">>

\* C13: get_admissible called for m3a1 with a term count its working arrays
\* cannot produce ends by raising: while it loops b stays within limit and
\* grows with every pass, it returns only with exactly the terms asked for,
\* and it raises once the passes up to b = limit have all run and the terms
\* collected are still fewer than asked for.
C13_ExhaustionRaises ==
    /\ []((gen.fn = "get_admissible" /\ gen.name = "m3a1") =>
            /\ gen.pc \in {"loop", "returned", "raised"}
            /\ gen.pc = "loop" => gen.b <= gen.limit
            /\ gen.pc = "returned" =>
                  Len(gen.results) = gen.n_terms /\ gen.b <= gen.limit
            /\ gen.pc = "raised" =>
                  gen.b = gen.limit + 1 /\ Len(gen.results) < gen.n_terms)
    /\ [][gen.pc = "loop" =>
             \/ gen'.pc = "returned" /\ Len(gen.results) >= gen.n_terms
             \/ gen'.b = gen.b + 1 /\ gen'.pc \in {"loop", "raised"}]_vars

\* with the arrays sized by limit = 5 a call for 4 terms has raised, three
\* terms collected
C13_Witness ==
    /\ gen.fn = "get_admissible" /\ gen.name = "m3a1"
    /\ gen.limit = 5 /\ gen.n_terms = 4
    /\ gen.pc = "raised" /\ gen.results = <<1, 1, 2>>

\* the process and the operator get_admissible, from which the batch maps
\* are built, give the same terms
AdmissibleAgrees ==
    (gen.fn = "get_admissible" /\ gen.pc = "returned") =>
        \E opt \in GeneratorOptions :
            opt.name = gen.name /\ gen.results = get_admissible(gen.n_terms, opt)

\* C14: for a rule other than m3a1 both generators return the empty
\* sequence, whatever the term count; for m3a1 each returns exactly the
\* number of terms asked for.
C14_GeneratorsByRule ==
    /\ gen.fn = "get_allowable_dropping_times" => gen.pc = "returned"
    /\ gen.pc = "raised" => gen.name = "m3a1"
    /\ gen.pc = "returned" =>
          IF gen.name = "m3a1" THEN Len(gen.results) = gen.n_terms
          ELSE gen.results = <<>>

\* the dropping-time generator has returned five terms for m3a1
C14_Witness ==
    /\ gen.fn = "get_allowable_dropping_times" /\ gen.name = "m3a1"
    /\ gen.pc = "returned" /\ gen.n_terms = 5
    /\ gen.results = <<3, 6, 8, 11, 13>>

\* a step of the simulator: its call, or a step of its loop
SimulationStep == pc = "running" \/ (pc = "idle" /\ pc' # "idle")

\* C15 as claimed: for a rule that is not classification-eligible, and for
\* any rule when no classification state is supplied, every simulation
\* returns with stop_mod and stop_index None and leaves lookup, wheel and
\* index unchanged.
C15_NoClassification ==
    [][(~Eligible /\ SimulationStep) =>
          /\ UNCHANGED maps
          /\ pc' # "raised"
          /\ pc' \in Returned =>
                stopping_mod' = None /\ stopping_index' = None]_vars

\* C15 as amended: the same, but for the two hard-coded returns, of m3a1 at
\* start 1 and m3a3 at start 3, which give stop_mod = 1 and stop_index = 1
\* whether or not the rule is eligible and the state supplied; they too
\* leave lookup, wheel and index unchanged.
C15_NoClassificationButHardCoded ==
    [][(~Eligible /\ SimulationStep) =>
          /\ UNCHANGED maps
          /\ pc' # "raised"
          /\ pc' \in Returned =>
                IF HardCoded(options.name, orig_n')
                THEN pc' = "shortcut" /\ stopping_mod' = 1 /\ stopping_index' = 1
                ELSE pc' # "shortcut"
                     /\ stopping_mod' = None /\ stopping_index' = None]_vars

\* m3a3, handed the maps a batch builds, has halted from start 6 past its
\* first drop without a classification, the maps as they were
C15_Witness ==
    /\ caller = "direct" /\ options.name = "m3a3" /\ maps_supplied
    /\ pc = "halted" /\ orig_n = 6 /\ first_drop = 1
    /\ stopping_mod = None /\ stopping_index = None
    /\ lookup_map = classic_maps.lookup_map
    /\ wheel_map = classic_maps.wheel_map
    /\ index_map = classic_maps.index_map

\* the tally of the entries of a list of operation ids
Tally(op_list) ==
    [id \in Range(op_list) |-> Cardinality({i \in 1..Len(op_list) : op_list[i] = id})]

\* entry i of op_list is the id of the transform of the rule in use that
\* took total_orbit[i] to total_orbit[i + 1]
MirrorsStep(op_list, i) ==
    IF should_decrease(options, orbit[i])
    THEN decrease(options, orbit[i]) = <<orbit[i + 1], op_list[i]>>
    ELSE \E draw \in BOOLEAN :
            increase(options, orbit[i], draw) = <<orbit[i + 1], op_list[i]>>

\* C16: in every record the operation log mirrors the orbit: total_op_list
\* has len(total_orbit) - 1 entries, entry i is the id of the rule's own
\* transform that took total_orbit[i] to total_orbit[i + 1], and
\* total_op_map is the tally of total_op_list.
C16_OpLogMirrorsOrbit ==
    (caller # "legacy" /\ pc \in Returned) =>
        /\ Len(total_op_list) = Len(orbit) - 1
        /\ \A i \in 1..Len(total_op_list) :
              i < Len(orbit) /\ MirrorsStep(total_op_list, i)
        /\ total_op_map = Tally(total_op_list)

\* the same at every point of the while loop and of the records it gives,
\* the two hard-coded returns left aside: this holds
LoopOpLogMirrorsOrbit ==
    (caller # "legacy" /\ pc \in {"running", "halted", "capped"}) =>
        /\ Len(total_op_list) = Len(orbit) - 1
        /\ \A i \in 1..Len(total_op_list) : MirrorsStep(total_op_list, i)
        /\ total_op_map = Tally(total_op_list)

\* the for loop of a batch of the classic rule is about to make its first
\* call of the simulator
BatchStart ==
    /\ caller \in {"utils", "legacy"} /\ options.name \in {"m3a1", "3x_plus_1"}
    /\ bpc = "loop" /\ bn = options.min_n /\ pc = "idle"

\* C17: before the first orbit of an m3a1 batch is simulated, lookup[1] = 1
\* and lookup[d_i] = a_i for every i, for the dropping times d_i and the
\* admissible terms a_i; wheel[k] = 1 for every key k of lookup; the index
\* entry of (d_i, 1) is 0; and the d_i are pairwise distinct and differ from
\* 1, so that no entry is overwritten.
C17_MapsAtBatchStart ==
    BatchStart =>
        LET d == get_allowable_dropping_times(n_terms, create_m3a1_options)
            a == get_admissible(n_terms, create_m3a1_options)
        IN /\ Len(d) = n_terms /\ Len(a) = n_terms
           /\ \A i \in 1..n_terms : d[i] # 1
           /\ \A i, j \in 1..n_terms : i # j => d[i] # d[j]
           /\ DOMAIN lookup_map = {1} \cup Range(d)
           /\ lookup_map[1] = 1
           /\ \A i \in 1..n_terms : lookup_map[d[i]] = a[i]
           /\ DOMAIN wheel_map = DOMAIN lookup_map
           /\ \A k \in DOMAIN lookup_map : wheel_map[k] = 1
           /\ DOMAIN index_map = {<<1>>} \cup {index_key(d[i], 1) : i \in 1..n_terms}
           /\ index_map[<<1>>] = 1
           /\ \A i \in 1..n_terms : index_map[index_key(d[i], 1)] = 0

\* the driver has built the maps from five terms and has not yet called the
\* simulator
C17_Witness ==
    /\ caller = "utils" /\ options.name = "m3a1" /\ n_terms = 5
    /\ bpc = "loop" /\ bn = 1 /\ pc = "idle" /\ results = <<>>
    /\ lookup_map = (1 :> 1) @@ (3 :> 1) @@ (6 :> 1) @@ (8 :> 2) @@ (11 :> 3) @@ (13 :> 7)
    /\ \A k \in {1, 3, 6, 8, 11, 13} : wheel_map[k] = 1

\* C18: a classification update for first-drop length L that assigns slot s
\* changes only wheel[L] and the index entry of (L, s): lookup, every other
\* wheel entry and every other index entry stay as they are; the seed entry
\* index[1] keeps the value 1 as long as the maps live, and the entry read
\* for stop_index is never the seed.
C18_UpdateFrame ==
    /\ [](index_map # <<>> => (<<1>> \in DOMAIN index_map /\ index_map[<<1>>] = 1))
    /\ [][(pc = "running" /\ stopping_mod = None /\ stopping_mod' # None) =>
            LET L == first_drop'
                s == stopping_mod'
            IN /\ lookup_map' = lookup_map
               /\ DOMAIN wheel_map' = DOMAIN wheel_map
               /\ \A k \in DOMAIN wheel_map \ {L} : wheel_map'[k] = wheel_map[k]
               /\ wheel_map'[L] # wheel_map[L] \/ lookup_map[L] = 1
               /\ DOMAIN index_map' = DOMAIN index_map \cup {index_key(L, s)}
               /\ \A key \in DOMAIN index_map \ {index_key(L, s)} :
                     index_map'[key] = index_map[key]
               /\ index_key(L, s) # <<1>>
               /\ stopping_index' = index_map'[index_key(L, s)]
               /\ stopping_index' =
                     (IF index_key(L, s) \in DOMAIN index_map
                      THEN index_map[index_key(L, s)] ELSE 0) + 1]_vars

\* the start values 2, 3 and 4 of a batch have been classified, with first
\* drops 1, 6 and 1: the entry of (1, 1) stands at 2 and that of (6, 1) at
\* 1, the seed at 1, and the entries of the other lengths are untouched
C18_Witness ==
    /\ caller = "legacy" /\ bpc = "loop" /\ n_terms = 5 /\ Len(results) = 4
    /\ index_map[<<1>>] = 1
    /\ index_key(1, 1) \in DOMAIN index_map /\ index_map[index_key(1, 1)] = 2
    /\ wheel_map[1] = 2
    /\ wheel_map[6] = 2 /\ index_map[index_key(6, 1)] = 1
    /\ \A k \in {3, 8, 11, 13} : wheel_map[k] = 1 /\ index_map[index_key(k, 1)] = 0

\* the classification address of a record
Address(r) == <<r.first_drop, r.stop_mod, r.stop_index>>

\* C19: within one batch of the classic rule no two records with different
\* start values have the same address (first_drop, stop_mod, stop_index).
C19_AddressUnique ==
    (caller \in {"utils", "legacy"} /\ Eligible) =>
        \A i, j \in 1..Len(results) :
            results[i].n # results[j].n => Address(results[i]) # Address(results[j])

\* the same of the records classified by the update of the while loop, in a
\* batch and in the calls of a direct caller on one set of maps: this holds
UpdatedAddressUnique ==
    Eligible =>
        \A i, j \in 1..Len(results) :
            (/\ i # j
             /\ ClassifiedByUpdate(results[i]) /\ ClassifiedByUpdate(results[j])) =>
                Address(results[i]) # Address(results[j])

\* C20: at every point of a batch of the classic rule, and of the calls of a
\* direct caller on one set of maps, every key L of lookup has
\* 1 <= wheel[L] <= lookup[L] + 1, and every stop_mod given to an orbit of
\* first-drop length L has 1 <= stop_mod <= lookup[L].
C20_WheelInRange ==
    (Eligible /\ lookup_map # <<>>) =>
        /\ DOMAIN wheel_map = DOMAIN lookup_map
        /\ \A L \in DOMAIN lookup_map :
              1 <= wheel_map[L] /\ wheel_map[L] <= lookup_map[L] + 1
        /\ \A i \in 1..Len(results) :
              results[i].stop_mod # None =>
                  /\ results[i].first_drop \in DOMAIN lookup_map
                  /\ 1 <= results[i].stop_mod
                  /\ results[i].stop_mod <= lookup_map[results[i].first_drop]
        /\ (pc \in Returned \cup {"running"} /\ stopping_mod # None) =>
              /\ first_drop \in DOMAIN lookup_map
              /\ 1 <= stopping_mod /\ stopping_mod <= lookup_map[first_drop]

\* with lookup[1] = 2 the second orbit of first-drop length 1 has been given
\* slot 2 and the wheel stands at 3, one past the magnitude
C20_Witness ==
    /\ caller = "direct" /\ Eligible
    /\ lookup_map[1] = 2 /\ wheel_map[1] = 3
    /\ Len(results) = 2
    /\ results[1].first_drop = 1 /\ results[1].stop_mod = 1
    /\ results[2].first_drop = 1 /\ results[2].stop_mod = 2
    /\ ClassifiedByUpdate(results[1]) /\ ClassifiedByUpdate(results[2])

\* the first-drop length, stop_mod and stop_index of a record are set, and
\* the length is a key of lookup: 1 or a term of the dropping-time sequence
AddressedByKey(first_drop_, stop_mod_, stop_index_) ==
    /\ first_drop_ # None /\ stop_mod_ # None /\ stop_index_ # None
    /\ first_drop_ \in DOMAIN lookup_map
    /\ first_drop_ = 1 \/ \E i \in 1..n_terms : DroppingTime(i) = first_drop_

\* C21: in a batch of the classic rule over the start values 1..N-1, the
\* maps built from terms enough for these start values, every first-drop
\* length that occurs is a key of lookup: the simulator never raises its
\* lookup failure, and every record has first_drop, stop_mod and stop_index
\* set.  The same holds of the simulator called directly on such maps for a
\* start value up to MaxStart.
C21_FirstDropsAreKeys ==
    /\ (caller \in {"utils", "legacy"} /\ Eligible /\ n_terms = MaxTerms) =>
          /\ pc # "raised" /\ exc # "lookup"
          /\ pc \in Returned => AddressedByKey(first_drop, stopping_mod, stopping_index)
          /\ \A i \in 1..Len(results) :
                AddressedByKey(results[i].first_drop, results[i].stop_mod,
                               results[i].stop_index)
    /\ (caller = "direct" /\ Eligible /\ n_terms = MaxTerms /\ orig_n \in 1..MaxStart) =>
          /\ pc # "raised"
          /\ pc \in Returned => AddressedByKey(first_drop, stopping_mod, stopping_index)

\* a batch over the start values 1..7 has returned its seven records, those
\* of 3 and 7 with the first-drop lengths 6 and 11
C21_Witness ==
    /\ caller = "legacy" /\ Eligible /\ n_terms = MaxTerms
    /\ bpc = "returned" /\ exc = "none" /\ total = 8 /\ Len(results) = 7
    /\ results[3].first_drop = 6 /\ results[7].first_drop = 11
    /\ results[7].stop_mod = 1 /\ results[7].stop_index = 1

====
